---- MODULE Spec2Model ----
(***************************************************************************)
(* AI-Mate: households, memberships and expenses kept in a hosted          *)
(* relational database, and the client screens that create or join a       *)
(* household and aggregate expenses.                                       *)
(*                                                                         *)
(* Every remote call of a client is one atomic step at the database; the   *)
(* client code between two awaits is local and is folded into the step of  *)
(* the call that follows it.  A remote call may fail without effect (the   *)
(* supabase client then returns {data: null, error}).                      *)
(***************************************************************************)
EXTENDS Integers, Sequences, FiniteSets, TLC

VARIABLES
    households,               \* table households
    members,                  \* table household_members
    profiles,                 \* table profiles: user id -> full_name
    on_household_created,     \* is the AFTER INSERT trigger installed
    before_household_created, \* is the BEFORE INSERT trigger installed
    cl,                       \* per device: HouseholdSetupScreen state
    restCalled,               \* the REST callers that made their call
    failures,                 \* number of remote calls that failed so far
    expenses,                 \* table expenses
    an,                       \* AnalysisScreen state
    lastRead,                 \* what the last read of an endpoint returned
    data,                     \* rows handed to the Analysis computations
    ex,                       \* ExpenseScreen state
    app                       \* per device: App state and its auth client

hvars == <<households, members, profiles, on_household_created,
           before_household_created, cl, restCalled, failures>>

\* the screens other than HouseholdSetupScreen, and their tables
svars == <<expenses, an, lastRead, data, ex>>

avars == <<svars, app>>

vars == <<hvars, avars>>

----------------------------------------------------------------------------
(* Bounds of the model                                                     *)

\* remote calls that fail (network, service) in one behaviour
MaxFailures == 1

Users == {"u1", "u2"}
\* devices showing HouseholdSetupScreen; each invokes one handler
Clients == {"d1", "d2"}
\* callers of the REST endpoints; each makes one call
RestCallers == {"r1"}
NULL == "NULL"

----------------------------------------------------------------------------
(* Text                                                                    *)

HexDigits == <<"0", "1", "2", "3", "4", "5", "6", "7", "8", "9",
               "a", "b", "c", "d", "e", "f">>

UpperAlnum == {"0", "1", "2", "3", "4", "5", "6", "7", "8", "9",
               "A", "B", "C", "D", "E", "F", "G", "H", "I", "J", "K", "L", "M",
               "N", "O", "P", "Q", "R", "S", "T", "U", "V", "W", "X", "Y", "Z"}

\* six-character invite code: SUBSTRING(... FROM 1 FOR 6)
CodeLen == 6

UpperChar(ch) ==
    CASE ch = "a" -> "A" [] ch = "b" -> "B" [] ch = "c" -> "C"
      [] ch = "d" -> "D" [] ch = "e" -> "E" [] ch = "f" -> "F"
      [] ch = "x" -> "X"
      [] OTHER -> ch

\* SQL UPPER(text)
UPPER(s) == [i \in DOMAIN s |-> UpperChar(s[i])]

\* SQL SUBSTRING(s FROM from FOR n)
SUBSTRING(s, from, n) ==
    LET last == IF from + n - 1 > Len(s) THEN Len(s) ELSE from + n - 1
    IN  SubSeq(s, from, last)

\* MD5(seed): 32 lower-case hexadecimal digits, a fixed digest per seed
MD5(seed) == [i \in 1..32 |-> HexDigits[((seed * 5 + i * 7) % 16) + 1]]

RECURSIVE TrimStart(_)
TrimStart(s) ==
    IF s # <<>> /\ Head(s) = " " THEN TrimStart(Tail(s)) ELSE s

RECURSIVE TrimEnd(_)
TrimEnd(s) ==
    IF s # <<>> /\ s[Len(s)] = " " THEN TrimEnd(SubSeq(s, 1, Len(s) - 1)) ELSE s

\* JavaScript String.prototype.trim
Trim(s) == TrimEnd(TrimStart(s))

----------------------------------------------------------------------------
(* The database: constraints, triggers and functions                       *)

\* the table without its UNIQUE constraint on join_code
JoinCodeFree_NoUnique(hs, code) == TRUE

\* households.join_code TEXT NOT NULL UNIQUE
JoinCodeFree(hs, code) == \A h \in hs : h.join_code # code

\* the table without UNIQUE (user_id, household_id)
MemberPairFree_NoUnique(ms, u, h) == TRUE

\* household_members UNIQUE (user_id, household_id)
MemberPairFree(ms, u, h) ==
    \A m \in ms : ~(m.user_id = u /\ m.household_id = h)

IsMember(u, h) == \E m \in members : m.user_id = u /\ m.household_id = h

\* a household_members row; display_name is checked (NOT NULL) but its text
\* is not kept
MemberRow(ms, u, h, role) ==
    [id |-> Cardinality(ms) + 1, user_id |-> u, household_id |-> h,
     role |-> role]

\* INSERT INTO household_members: NOT NULL display_name, then the UNIQUE pair
InsertMember(ms, u, h, role, name) ==
    IF name = NULL THEN [err |-> "23502", ms |-> ms]
    ELSE IF ~MemberPairFree(ms, u, h) THEN [err |-> "23505", ms |-> ms]
    ELSE [err |-> "none", ms |-> ms \cup {MemberRow(ms, u, h, role)}]

\* trigger function generate_join_code: NEW.join_code := UPPER(SUBSTRING(MD5(..)))
generate_join_code(seed) == UPPER(SUBSTRING(MD5(seed), 1, CodeLen))

\* trigger function add_household_creator_as_member, on the row just inserted
add_household_creator_as_member(ms, created_by, id) ==
    InsertMember(ms, created_by, id, "admin", profiles[created_by])

\* INSERT INTO households (created_by, join_code): BEFORE trigger, UNIQUE
\* join_code, AFTER trigger; any error rolls the statement back
InsertHousehold(created_by, join_code, tseed, path) ==
    LET id   == Cardinality(households) + 1
        code == IF before_household_created THEN generate_join_code(tseed)
                ELSE join_code
        row  == [id |-> id, created_by |-> created_by, join_code |-> code,
                 path |-> path]
        trg  == IF on_household_created
                THEN add_household_creator_as_member(members, created_by, id)
                ELSE [err |-> "none", ms |-> members]
    IN  IF ~JoinCodeFree(households, code)
        THEN [err |-> "23505", hs |-> households, ms |-> members, id |-> 0,
              stored |-> code]
        ELSE IF trg.err # "none"
        THEN [err |-> trg.err, hs |-> households, ms |-> members, id |-> 0,
              stored |-> code]
        ELSE [err |-> "none", hs |-> households \cup {row}, ms |-> trg.ms,
              id |-> id, stored |-> code]

\* the generated code left in MD5's lower case
RandomJoinCode_NoUpper(seed) == SUBSTRING(MD5(seed), 1, CodeLen)

\* the code create_household_only generates:
\* UPPER(SUBSTRING(MD5(RANDOM()::TEXT) FROM 1 FOR 6))
RandomJoinCode(seed) == UPPER(SUBSTRING(MD5(seed), 1, CodeLen))

\* RPC create_household_only(household_name, user_id): the insert, and the
\* JSON it returns (id, and the join_code the function generated)
create_household_only(user_id, seed, tseed) ==
    LET join_code == RandomJoinCode(seed)
        ins       == InsertHousehold(user_id, join_code, tseed, "rpc")
    IN  [err |-> ins.err, hs |-> ins.hs, ms |-> ins.ms, id |-> ins.id,
         join_code |-> join_code, stored |-> ins.stored]

\* the lookup without its WHERE clause
find_household_by_join_code_NoWhere(search_code) == households

\* RPC find_household_by_join_code(search_code)
find_household_by_join_code(search_code) ==
    {h \in households : h.join_code = UPPER(search_code)}

\* RPC join_household_with_code(join_code_param, display_name_param), called
\* by user uid: INSERT ... ON CONFLICT (user_id, household_id) DO NOTHING
join_household_with_code(uid, join_code_param, display_name_param) ==
    LET found == {h \in households : h.join_code = UPPER(join_code_param)}
    IN  IF found = {} THEN members
        ELSE LET h   == CHOOSE x \in found : TRUE
                 ins == InsertMember(members, uid, h.id, "member",
                                     display_name_param)
             IN  ins.ms

----------------------------------------------------------------------------
(* Inputs                                                                  *)

\* the values RANDOM() / CURRENT_TIMESTAMP take when a join code is generated
Seeds == {1, 2}

\* what a user may type into the join-code field: blanks, or a code in
\* lower case with surrounding blanks (of a household that exists or not)
JoinCodeInputs ==
    {<<" ">>}
    \cup {<<" ">> \o SUBSTRING(MD5(k), 1, CodeLen) \o <<" ">> : k \in Seeds}

\* codes a caller of join_household_with_code may pass
RestCodeInputs == {SUBSTRING(MD5(k), 1, CodeLen) : k \in Seeds}

\* the join_code a caller of the REST insert supplies: lower case, as MD5
\* gives it
SuppliedCodes == {SUBSTRING(MD5(1), 1, CodeLen)}

----------------------------------------------------------------------------
(* HouseholdSetupScreen: createHousehold and joinHousehold                 *)

\* the screen of a device with no handler running
FreshScreen(session) ==
    [session |-> session, pc |-> "idle", op |-> "none", joinCode |-> <<>>,
     showNameField |-> FALSE, displayName |-> "", profile |-> NULL,
     householdId |-> 0, retCode |-> <<>>, stored |-> <<>>,
     err |-> "none", alert |-> "none", loading |-> FALSE, emitted |-> FALSE,
     navigated |-> FALSE, inserted |-> FALSE, profileWritten |-> FALSE]

\* user.email.split('@')[0]
EmailName == "email"

\* a remote call answers, or fails without effect while failures remain
Outcomes == IF failures < MaxFailures THEN BOOLEAN ELSE {TRUE}

Failed(ok) == failures' = IF ok THEN failures ELSE failures + 1

Idle(c) == cl[c].pc = "idle"

\* a handler returns: its effects on the screen, then `finally`; the form
\* fields and the handler's locals are entered anew by the next invocation
Return(c, upd) ==
    cl' = [cl EXCEPT ![c] =
             upd @@ [pc |-> "done", loading |-> FALSE, joinCode |-> <<>>,
                     showNameField |-> FALSE, displayName |-> "",
                     profile |-> NULL] @@ @]

Step(c, upd) == cl' = [cl EXCEPT ![c] = upd @@ @]

DbUnchanged == UNCHANGED <<households, members, profiles,
                           on_household_created, before_household_created>>

\* createHousehold up to its first database call: validation, setLoading,
\* auth.getUser / auth.getSession
StartCreate(c) ==
    /\ UNCHANGED avars
    /\ Idle(c)
    /\ UNCHANGED restCalled
    /\ DbUnchanged
    /\ \E nameBlank \in BOOLEAN, ok \in Outcomes :
         /\ Failed(nameBlank \/ ok)
         /\ nameBlank => ok
         /\ LET user == IF ok THEN cl[c].session ELSE NULL
            IN  IF nameBlank
                THEN cl' = [cl EXCEPT ![c] =
                              [op |-> "create", pc |-> "done",
                               alert |-> "NameRequired"] @@ FreshScreen(@.session)]
                ELSE IF user = NULL
                THEN cl' = [cl EXCEPT ![c] =
                              [op |-> "create", pc |-> "done",
                               alert |-> "CreationFailed"] @@ FreshScreen(@.session)]
                ELSE cl' = [cl EXCEPT ![c] =
                              [op |-> "create", pc |-> "c_profile",
                               loading |-> TRUE] @@ FreshScreen(@.session)]

\* from('profiles').select('full_name').eq('id', user.id).single()
CreateProfile(c) ==
    /\ UNCHANGED avars
    /\ cl[c].pc = "c_profile"
    /\ UNCHANGED restCalled /\ DbUnchanged
    /\ \E ok \in Outcomes :
         /\ Failed(ok)
         /\ LET profile == IF ok THEN profiles[cl[c].session] ELSE NULL
            IN  Step(c, [profile |-> profile,
                         pc |-> IF profile = NULL THEN "c_upsert" ELSE "c_rpc"])

\* from('profiles').upsert({id, full_name: emailUsername}); result ignored
CreateUpsert(c) ==
    /\ UNCHANGED avars
    /\ cl[c].pc = "c_upsert"
    /\ UNCHANGED <<restCalled, households, members, on_household_created,
                   before_household_created>>
    /\ \E ok \in Outcomes :
         /\ Failed(ok)
         /\ profiles' = IF ok THEN [profiles EXCEPT ![cl[c].session] = EmailName]
                        ELSE profiles
         /\ Step(c, [profileWritten |-> ok, pc |-> "c_rpc"])

\* rpc('create_household_only', {household_name, user_id: user.id})
CreateRpc(c) ==
    /\ UNCHANGED avars
    /\ cl[c].pc = "c_rpc"
    /\ UNCHANGED <<restCalled, profiles, on_household_created,
                   before_household_created>>
    /\ \E ok \in Outcomes, seed \in Seeds, tseed \in Seeds :
         /\ Failed(ok)
         /\ LET r == create_household_only(cl[c].session, seed, tseed)
            IN  IF ~ok
                THEN /\ UNCHANGED <<households, members>>
                     /\ Return(c, [err |-> "network", alert |-> "CreationFailed"])
                ELSE /\ households' = r.hs
                     /\ members' = r.ms
                     /\ IF r.err # "none"
                        THEN Return(c, [err |-> r.err, stored |-> r.stored,
                                        alert |-> "CreationFailed"])
                        ELSE Step(c, [householdId |-> r.id, retCode |-> r.join_code,
                                      pc |-> "c_check"])

\* the listener App registers for HOUSEHOLD_CREATED_EVENT
HouseholdListener(a) ==
    IF a.mounted THEN [a EXCEPT !.householdComplete = TRUE] ELSE a

\* householdEmitter.emit(HOUSEHOLD_CREATED_EVENT, ..) on device c: the
\* listeners run inside the call
Emit(c) == app' = [app EXCEPT ![c] = HouseholdListener(@)]

\* the end of createHousehold's success path: emit HOUSEHOLD_CREATED_EVENT,
\* the timer that resets navigation to Home, `finally`
CreateFinish(c, upd) ==
    /\ Return(c, upd @@ [emitted |-> TRUE, navigated |-> TRUE])
    /\ Emit(c)

\* from('household_members').select('id').eq(user_id).eq(household_id)
\* .maybeSingle(); an error leaves existingMember null
CreateCheck(c) ==
    /\ UNCHANGED svars
    /\ cl[c].pc = "c_check"
    /\ UNCHANGED restCalled /\ DbUnchanged
    /\ \E ok \in Outcomes :
         /\ Failed(ok)
         /\ IF ok /\ IsMember(cl[c].session, cl[c].householdId)
            THEN CreateFinish(c, [err |-> "none"])
            ELSE Step(c, [pc |-> "c_insert"]) /\ UNCHANGED app

\* from('household_members').insert({user_id, household_id, role: 'admin',
\* display_name}); memberError is only logged
CreateInsert(c) ==
    /\ UNCHANGED svars
    /\ cl[c].pc = "c_insert"
    /\ UNCHANGED <<restCalled, households, profiles, on_household_created,
                   before_household_created>>
    /\ \E ok \in Outcomes :
         /\ Failed(ok)
         /\ LET displayName == IF cl[c].profile # NULL THEN cl[c].profile
                               ELSE EmailName
                r == InsertMember(members, cl[c].session, cl[c].householdId,
                                  "admin", displayName)
            IN  IF ~ok
                THEN /\ UNCHANGED members
                     /\ CreateFinish(c, [err |-> "network"])
                ELSE /\ members' = r.ms
                     /\ CreateFinish(c, [err |-> r.err, inserted |-> r.err = "none"])

\* joinHousehold's `catch`: Alert 'Join Failed', 'Unable to join ...'
JoinThrow(c, upd) ==
    /\ Return(c, upd @@ [alert |-> "JoinFailed", householdId |-> 0])
    /\ UNCHANGED app

\* joinHousehold's two 'Already a Member' exits: emit the event, alert,
\* navigation only when the user presses the alert's button
JoinAlready(c, upd) ==
    /\ Return(c, upd @@ [emitted |-> TRUE, alert |-> "AlreadyMember",
                         householdId |-> 0])
    /\ Emit(c)

\* joinHousehold up to its first database call.  showNameField was set by
\* checkUserProfile when the join form opened: true when the profile had no
\* full_name then or could not be read
StartJoin(c) ==
    /\ UNCHANGED avars
    /\ Idle(c)
    /\ UNCHANGED restCalled
    /\ DbUnchanged
    /\ \E joinCode \in JoinCodeInputs, displayName \in {"", "typed"},
          showNameField \in BOOLEAN, ok \in Outcomes :
         /\ LET called == Trim(joinCode) # <<>>
                          /\ ~(showNameField /\ displayName = "")
            IN  Failed(~called \/ ok) /\ (~called => ok)
         /\ LET user == IF ok THEN cl[c].session ELSE NULL
                s0   == [op |-> "join", joinCode |-> joinCode,
                         showNameField |-> showNameField,
                         displayName |-> displayName]
                        @@ FreshScreen(cl[c].session)
                s1   == [op |-> "join"] @@ FreshScreen(cl[c].session)
            IN  /\ ~showNameField => profiles[cl[c].session] # NULL
                /\ displayName # "" => showNameField
                /\ IF Trim(joinCode) = <<>>
                   THEN cl' = [cl EXCEPT ![c] =
                                 [pc |-> "done", alert |-> "CodeRequired"] @@ s1]
                   ELSE IF showNameField /\ displayName = ""
                   THEN cl' = [cl EXCEPT ![c] =
                                 [pc |-> "done", alert |-> "NameRequired"] @@ s1]
                   ELSE IF user = NULL
                   THEN cl' = [cl EXCEPT ![c] =
                                 [pc |-> "done", alert |-> "JoinFailed"] @@ s1]
                   ELSE cl' = [cl EXCEPT ![c] =
                                 [pc |-> "j_find", loading |-> TRUE] @@ s0]

\* the empty-lookup branch without its `return`: household[0] is undefined
\* and reading household_id of it throws into `catch`
InvalidCode_NoReturn(c) ==
    Return(c, [err |-> "TypeError", alert |-> "JoinFailed"])

\* what joinHousehold does with a lookup that returned no row
InvalidCode(c) ==
    Return(c, [alert |-> "InvalidCode"])

\* rpc('find_household_by_join_code', {search_code: joinCode.trim()})
JoinFind(c) ==
    /\ UNCHANGED avars
    /\ cl[c].pc = "j_find"
    /\ UNCHANGED restCalled /\ DbUnchanged
    /\ \E ok \in Outcomes :
         /\ Failed(ok)
         /\ LET household == find_household_by_join_code(Trim(cl[c].joinCode))
            IN  IF ~ok
                THEN JoinThrow(c, [err |-> "network"])
                ELSE IF household = {}
                THEN InvalidCode(c)
                ELSE \E h \in household :
                       Step(c, [householdId |-> h.id, pc |-> "j_check"])

\* from('household_members').select('id').eq(user_id).eq(household_id)
\* .maybeSingle()
JoinCheck(c) ==
    /\ UNCHANGED svars
    /\ cl[c].pc = "j_check"
    /\ UNCHANGED restCalled /\ DbUnchanged
    /\ \E ok \in Outcomes :
         /\ Failed(ok)
         /\ IF ~ok
            THEN JoinThrow(c, [err |-> "network"])
            ELSE IF IsMember(cl[c].session, cl[c].householdId)
            THEN JoinAlready(c, [err |-> "none"])
            ELSE Step(c, [pc |-> "j_profile"]) /\ UNCHANGED app

\* from('profiles').select('full_name').eq('id', user.id).single()
JoinProfile(c) ==
    /\ UNCHANGED avars
    /\ cl[c].pc = "j_profile"
    /\ UNCHANGED restCalled /\ DbUnchanged
    /\ \E ok \in Outcomes :
         /\ Failed(ok)
         /\ LET profile == IF ok THEN profiles[cl[c].session] ELSE NULL
            IN  Step(c, [profile |-> profile,
                         pc |-> IF ~cl[c].showNameField /\ profile = NULL
                                THEN "j_upsert" ELSE "j_insert"])

\* the display name joinHousehold inserts
UserDisplayName(c) ==
    IF cl[c].showNameField THEN cl[c].displayName
    ELSE IF cl[c].profile # NULL THEN cl[c].profile
    ELSE EmailName

\* from('profiles').upsert({id, full_name: userDisplayName}); result ignored
JoinUpsert(c) ==
    /\ UNCHANGED avars
    /\ cl[c].pc = "j_upsert"
    /\ UNCHANGED <<restCalled, households, members, on_household_created,
                   before_household_created>>
    /\ \E ok \in Outcomes :
         /\ Failed(ok)
         /\ profiles' = IF ok
                        THEN [profiles EXCEPT ![cl[c].session] = UserDisplayName(c)]
                        ELSE profiles
         /\ Step(c, [profileWritten |-> ok, pc |-> "j_insert"])

\* from('household_members').insert({user_id, household_id, display_name})
JoinInsert(c) ==
    /\ UNCHANGED svars
    /\ cl[c].pc = "j_insert"
    /\ UNCHANGED <<restCalled, households, profiles, on_household_created,
                   before_household_created>>
    /\ \E ok \in Outcomes :
         /\ Failed(ok)
         /\ LET r == InsertMember(members, cl[c].session, cl[c].householdId,
                                  "member", UserDisplayName(c))
            IN  IF ~ok
                THEN /\ UNCHANGED members
                     /\ JoinThrow(c, [err |-> "network"])
                ELSE /\ members' = r.ms
                     /\ IF r.err = "23505" THEN JoinAlready(c, [err |-> r.err])
                        ELSE IF r.err # "none" THEN JoinThrow(c, [err |-> r.err])
                        ELSE /\ Return(c, [err |-> "none", inserted |-> TRUE,
                                           emitted |-> TRUE, navigated |-> TRUE,
                                           householdId |-> 0])
                             /\ Emit(c)

----------------------------------------------------------------------------
(* Calls made straight to the REST endpoints, by any signed-in user        *)

\* rpc join_household_with_code
RestJoinWithCode(r, u) ==
    /\ UNCHANGED avars
    /\ r \notin restCalled
    /\ restCalled' = restCalled \cup {r}
    /\ UNCHANGED <<households, profiles, on_household_created,
                   before_household_created, cl, failures>>
    /\ \E code \in RestCodeInputs :
         members' = join_household_with_code(u, code, "typed")

\* insert into households: policies household_insert_any and "Allow users
\* to create households" are both permissive, so created_by is free
RestInsertHousehold(r, u) ==
    /\ UNCHANGED avars
    /\ r \notin restCalled
    /\ restCalled' = restCalled \cup {r}
    /\ UNCHANGED <<profiles, on_household_created, before_household_created,
                   cl, failures>>
    /\ \E created_by \in Users, code \in SuppliedCodes, tseed \in Seeds :
         LET ins == InsertHousehold(created_by, code, tseed, "insert")
         IN  /\ households' = ins.hs
             /\ members' = ins.ms

----------------------------------------------------------------------------
(* JavaScript numbers                                                      *)

\* bits of the significand.  A double has 53; the model keeps the rounding
\* rule of the arithmetic and scales the width down
MantissaBits == 3

RECURSIVE Pow2(_)
Pow2(n) == IF n = 0 THEN 1 ELSE 2 * Pow2(n - 1)

\* the distance between neighbouring numbers at the magnitude of x
RECURSIVE Ulp(_)
Ulp(x) == IF x < Pow2(MantissaBits) THEN 1 ELSE 2 * Ulp(x \div 2)

\* the number nearest to the real x >= 0, ties to the even significand
RoundToNumber(x) ==
    LET u  == Ulp(x)
        lo == (x \div u) * u
        hi == lo + u
    IN  IF x = lo THEN x
        ELSE IF x - lo < hi - x THEN lo
        ELSE IF x - lo > hi - x THEN hi
        ELSE IF (lo \div u) % 2 = 0 THEN lo ELSE hi

\* Number(expense.amount): the NUMERIC column arrives as a JSON number
Number(amount) == RoundToNumber(amount)

\* a + b on numbers
Plus(a, b) == RoundToNumber(a + b)

----------------------------------------------------------------------------
(* AnalysisScreen: totals of the loaded expenses                           *)

EXPENSE_CATEGORIES ==
    {"Food", "Groceries", "Shopping", "Entertainment", "Transport",
     "Utilities", "Housing", "Health", "Education", "Travel", "Dining",
     "Other"}

\* property names that every plain object ({}) inherits, so that
\* categoryGroups[name] is truthy before anything was stored under name
InheritedKeys ==
    {"constructor", "toString", "valueOf", "hasOwnProperty", "__proto__"}

\* position of category among the own keys of categoryGroups, 0 if none
KeyIndex(groups, category) ==
    IF \E i \in 1..Len(groups) : groups[i].category = category
    THEN CHOOSE i \in 1..Len(groups) : groups[i].category = category
    ELSE 0

\* the forEach of calculateCategoryTotals; groups lists the own entries of
\* categoryGroups in insertion order.  Under an inherited name no entry is
\* created and the two += land on the inherited object
RECURSIVE GroupByCategory(_, _)
GroupByCategory(exps, groups) ==
    IF exps = <<>> THEN groups
    ELSE LET expense  == Head(exps)
             category == IF expense.category = "" THEN "Other"
                         ELSE expense.category
             i  == KeyIndex(groups, category)
             g0 == IF i = 0
                   THEN Append(groups, [category |-> category, total |-> 0,
                                        count |-> 0])
                   ELSE groups
             j  == IF i = 0 THEN Len(g0) ELSE i
         IN  IF category \in InheritedKeys
             THEN GroupByCategory(Tail(exps), groups)
             ELSE GroupByCategory(Tail(exps),
                    [g0 EXCEPT ![j].total = Plus(@, Number(expense.amount)),
                               ![j].count = @ + 1])

\* x put into a list sorted by total, descending, after its equals
RECURSIVE InsertByTotal(_, _)
InsertByTotal(s, x) ==
    IF s = <<>> THEN <<x>>
    ELSE IF Head(s).total >= x.total THEN <<Head(s)>> \o InsertByTotal(Tail(s), x)
    ELSE <<x>> \o s

\* categoryData.sort((a, b) => b.total - a.total), a stable sort
RECURSIVE SortByTotal(_)
SortByTotal(s) ==
    IF s = <<>> THEN <<>>
    ELSE InsertByTotal(SortByTotal(SubSeq(s, 1, Len(s) - 1)), s[Len(s)])

\* calculateCategoryTotals(expenses): the value given to setCategoryTotals
\* (category, total, count; the colour is left out)
calculateCategoryTotals(exps) == SortByTotal(GroupByCategory(exps, <<>>))

\* transformedExpenses.reduce((sum, expense) => sum + Number(expense.amount), 0)
RECURSIVE SumAmounts(_, _)
SumAmounts(exps, sum) ==
    IF exps = <<>> THEN sum
    ELSE SumAmounts(Tail(exps), Plus(sum, Number(Head(exps).amount)))

\* data.map(expense => ({id, store_name, amount, category, date}))
TransformExpenses(rows) ==
    [i \in DOMAIN rows |->
        [id |-> rows[i].expense_id, amount |-> rows[i].amount,
         category |-> rows[i].category, date |-> rows[i].expense_date]]

\* loadExpenses once the RPC has answered with rows: setExpenses,
\* setMonthlyTotal, calculateCategoryTotals
ShowExpenses(rows) ==
    LET transformedExpenses == TransformExpenses(rows)
    IN  [expenses       |-> transformedExpenses,
         monthlyTotal   |-> SumAmounts(transformedExpenses, 0),
         categoryTotals |-> calculateCategoryTotals(transformedExpenses)]

----------------------------------------------------------------------------
(* JavaScript Date (local time, whole days) and SQL DATE                   *)

IsLeapYear(y) == (y % 4 = 0 /\ y % 100 # 0) \/ y % 400 = 0

\* days of month m (0 = January) in year y
DaysInMonth(y, m) ==
    IF m = 1 THEN (IF IsLeapYear(y) THEN 29 ELSE 28)
    ELSE IF m \in {3, 5, 8, 10} THEN 30 ELSE 31

\* day number of 1 January of y, counted from 1 January 1970
DayFromYear(y) ==
    365 * (y - 1970) + ((y - 1969) \div 4) - ((y - 1901) \div 100)
        + ((y - 1601) \div 400)

RECURSIVE DaysBeforeMonth(_, _)
DaysBeforeMonth(y, m) ==
    IF m = 0 THEN 0 ELSE DaysBeforeMonth(y, m - 1) + DaysInMonth(y, m - 1)

\* new Date(year, month, date): month and date may lie outside their ranges
\* and carry over (month -1 is December of the year before, date 0 the last
\* day of the month before)
NewDate(year, month, date) ==
    LET ym == year + (month \div 12)
        mn == month % 12
    IN  DayFromYear(ym) + DaysBeforeMonth(ym, mn) + date - 1

\* the year of day t, searched upwards from year y <= that year
RECURSIVE YearFrom(_, _)
YearFrom(t, y) == IF DayFromYear(y + 1) <= t THEN YearFrom(t, y + 1) ELSE y

getFullYear(t) == YearFrom(t, 1970 + (t \div 366))

getMonth(t) ==
    LET y == getFullYear(t)
    IN  CHOOSE m \in 0..11 : NewDate(y, m, 1) <= t /\ t < NewDate(y, m + 1, 1)

getDate(t) == t - NewDate(getFullYear(t), getMonth(t), 1) + 1

Digits == <<"0", "1", "2", "3", "4", "5", "6", "7", "8", "9">>

\* num.toString()
RECURSIVE toString(_)
toString(num) ==
    IF num < 10 THEN <<Digits[num + 1]>>
    ELSE toString(num \div 10) \o <<Digits[(num % 10) + 1]>>

\* pad = num => num.toString().padStart(2, '0')
pad(num) ==
    LET s == toString(num) IN IF Len(s) < 2 THEN <<"0">> \o s ELSE s

\* `${d.getFullYear()}-${pad(d.getMonth() + 1)}-${pad(d.getDate())}`
FormatDay(t) ==
    toString(getFullYear(t)) \o <<"-">> \o pad(getMonth(t) + 1) \o <<"-">>
        \o pad(getDate(t))

DigitValue(ch) == (CHOOSE i \in 1..10 : Digits[i] = ch) - 1

RECURSIVE ParseInt(_, _)
ParseInt(s, acc) ==
    IF s = <<>> THEN acc ELSE ParseInt(Tail(s), 10 * acc + DigitValue(Head(s)))

\* CAST(text AS DATE) of 'YYYY-MM-DD'
CastDate(text) ==
    [y |-> ParseInt(SubSeq(text, 1, 4), 0),
     m |-> ParseInt(SubSeq(text, 6, 7), 0),
     d |-> ParseInt(SubSeq(text, 9, 10), 0)]

\* date::TEXT
DateText(date) ==
    toString(date.y) \o <<"-">> \o pad(date.m) \o <<"-">> \o pad(date.d)

\* a <= b on SQL dates
DateLE(a, b) ==
    \/ a.y < b.y
    \/ a.y = b.y /\ a.m < b.m
    \/ a.y = b.y /\ a.m = b.m /\ a.d <= b.d

----------------------------------------------------------------------------
(* The database: expenses and the reading endpoints                        *)

\* policy expenses_insert: created_by = auth.uid() and the user is a member
expenses_insert(uid, row) ==
    row.created_by = uid /\ IsMember(uid, row.household_id)

\* policy expenses_select_household
expenses_select_household(uid, row) == IsMember(uid, row.household_id)

\* policy profiles_select_household_members, for the profile of user id
profiles_select_household_members(uid, id) ==
    \/ id = uid
    \/ \E my, other \in members :
          /\ my.household_id = other.household_id
          /\ my.user_id = uid
          /\ other.user_id = id

\* RPC get_expenses_with_creator_profiles (SECURITY DEFINER: no policy
\* applies): the expenses rows it selects
get_expenses_with_creator_profiles(household_id_param, start_date, end_date) ==
    {e \in expenses :
        /\ e.household_id = household_id_param
        /\ DateLE(CastDate(start_date), e.date)
        /\ DateLE(e.date, CastDate(end_date))}

\* the row the RPC returns for an expenses row, joined to its creator
ExpenseWithCreator(e) ==
    [expense_id |-> e.id, amount |-> e.amount, category |-> e.category,
     expense_date |-> DateText(e.date), created_by |-> e.created_by,
     creator_name |-> profiles[e.created_by]]

\* the orders ORDER BY e.date DESC may return a set of rows in
OrderByDateDesc(rows) ==
    {s \in [1..Cardinality(rows) -> rows] :
        /\ \A i, j \in DOMAIN s : i # j => s[i] # s[j]
        /\ \A i, j \in DOMAIN s : i < j => DateLE(s[j].date, s[i].date)}

\* RPC get_household_members_with_profiles (SECURITY DEFINER): the
\* household's member rows, each joined to the member's profile
get_household_members_with_profiles(household_id_param) ==
    {[member_id |-> m.id, user_id |-> m.user_id, role |-> m.role,
      full_name |-> profiles[m.user_id]] :
        m \in {x \in members : x.household_id = household_id_param}}

----------------------------------------------------------------------------
(* Inputs of the Analysis screen and of the expenses table                 *)

\* ids of the rows the expenses table may hold
ExpenseIds == {1, 2}

\* months the user picks after the screen opened
MaxSelects == 1

\* how many months back the user picks
MaxBack == 2

\* rows handed to the totals at once
MaxData == 3

\* new Date() when the Analysis screen opens: year and month (0 = January)
Nows == {[year |-> 2024, month |-> 1]}

\* dates of saved expenses: around the ends of February of a leap year
SavedDates ==
    {[y |-> 2024, m |-> 1, d |-> 31], [y |-> 2024, m |-> 2, d |-> 1],
     [y |-> 2024, m |-> 2, d |-> 29], [y |-> 2024, m |-> 3, d |-> 1]}

SavedAmounts == {7}

SavedCategories == {"Food"}

\* rows the RPC may answer the totals with
DataAmounts == {1, 2, 7}

DataCategories == {"Food", "Groceries", "Other", "", "constructor"}

\* ranges a caller of get_expenses_with_creator_profiles may pass
RestRanges ==
    {[start_date |-> DateText([y |-> 2023, m |-> 1, d |-> 1]),
      end_date   |-> DateText([y |-> 2024, m |-> 12, d |-> 31])]}

----------------------------------------------------------------------------
(* AnalysisScreen                                                          *)

\* useState<MonthData | null>(null)
NoMonth == [year |-> 0, month |-> 0]

\* no loadExpenses call has been answered
NoRequest == [year |-> 0, month |-> 0, householdId |-> 0]

\* the screen before its effects ran (householdId 0: null)
FreshAnalysis(session) ==
    [session |-> session, pc |-> "new", householdId |-> 0,
     availableMonths |-> <<>>, selectedMonthData |-> NoMonth, selects |-> 0,
     pending |-> {}, loaded |-> NoRequest, loads |-> 0, expenses |-> <<>>,
     monthlyTotal |-> 0, categoryTotals |-> <<>>, loading |-> TRUE,
     error |-> "none"]

\* generateMonths: the last 12 months, the current one first (year, month
\* 1..12; value and label are left out)
generateMonths(now) ==
    [k \in 1..12 |->
        LET date == NewDate(now.year, now.month - (k - 1), 1)
        IN  [year |-> getFullYear(date), month |-> getMonth(date) + 1]]

\* useEffect(.., [selectedMonthData, householdId]) after a change of either:
\* loadExpenses is called with the two values of that render and, when both
\* are set, does setLoading(true) and sends its request
LoadExpensesEffect(s) ==
    IF s.selectedMonthData # NoMonth /\ s.householdId # 0
    THEN [pending |-> s.pending \cup {[year  |-> s.selectedMonthData.year,
                                       month |-> s.selectedMonthData.month,
                                       householdId |-> s.householdId]},
          loading |-> TRUE] @@ s
    ELSE s

AnUnchanged == UNCHANGED <<households, members, profiles, on_household_created,
                           before_household_created, cl, restCalled, expenses,
                           lastRead, data, ex, app>>

\* the mount effect: loadUserHousehold() up to its first remote call, then
\* generateMonths()
Mount ==
    /\ an.pc = "new"
    /\ AnUnchanged
    /\ \E now \in Nows, ok \in Outcomes :
         /\ Failed(ok)
         /\ LET months == generateMonths(now)
                s1 == [availableMonths |-> months,
                       selectedMonthData |-> months[1]] @@ an
            IN  an' = IF ok THEN [pc |-> "household"] @@ s1
                      ELSE [pc |-> "open", loading |-> FALSE,
                            error |-> "household"] @@ s1

\* loadUserHousehold: from('household_members').select('household_id')
\* .eq('user_id', user.id).limit(1).single()
LoadUserHousehold ==
    /\ an.pc = "household"
    /\ AnUnchanged
    /\ \E ok \in Outcomes :
         /\ Failed(ok)
         /\ LET mine == {m \in members : m.user_id = an.session}
            IN  IF ~ok \/ mine = {}
                THEN an' = [pc |-> "open", loading |-> FALSE,
                            error |-> "household"] @@ an
                ELSE \E m \in mine :
                        an' = LoadExpensesEffect(
                                [pc |-> "open",
                                 householdId |-> m.household_id] @@ an)

\* handleMonthSelect(monthData), with a month of the list other than the
\* selected one
HandleMonthSelect ==
    /\ an.pc \in {"household", "open"}
    /\ an.selects < MaxSelects
    /\ AnUnchanged
    /\ UNCHANGED failures
    /\ \E k \in DOMAIN an.availableMonths :
         /\ k <= MaxBack + 1
         /\ an.availableMonths[k] # an.selectedMonthData
         /\ an' = LoadExpensesEffect(
                    [selectedMonthData |-> an.availableMonths[k],
                     selects |-> an.selects + 1] @@ an)

\* lastDay as the first day of the month after
LastDay_NextMonth(year, month) == NewDate(year, month, 1)

\* const lastDay = new Date(year, month, 0)
LastDay(year, month) == NewDate(year, month, 0)

\* const firstDay = new Date(year, month - 1, 1)
FirstDay(year, month) == NewDate(year, month - 1, 1)

\* loadExpenses of request req once the RPC has answered with rows: the
\* state updates of `try` and `finally`; loaded names the request whose rows
\* are shown and loads counts the answers shown so far
Answered(s, req, rows) ==
    ShowExpenses(rows)
    @@ [pending |-> s.pending \ {req}, loaded |-> req, loads |-> s.loads + 1,
        loading |-> FALSE] @@ s

\* a loadExpenses call that was sent gets its answer: the RPC, then the state
\* updates of `try`, `catch` and `finally`
LoadExpenses ==
    /\ an.pc = "open"
    /\ AnUnchanged
    /\ \E req \in an.pending, ok \in Outcomes :
         /\ Failed(ok)
         /\ LET firstDayStr == FormatDay(FirstDay(req.year, req.month))
                lastDayStr  == FormatDay(LastDay(req.year, req.month))
                rows == get_expenses_with_creator_profiles(
                            req.householdId, firstDayStr, lastDayStr)
            IN  IF ~ok
                THEN an' = [pending |-> an.pending \ {req}, loading |-> FALSE,
                            error |-> "expenses"] @@ an
                ELSE \E sorted \in OrderByDateDesc(rows) :
                        an' = Answered(an, req,
                                [i \in DOMAIN sorted |->
                                    ExpenseWithCreator(sorted[i])])

\* the answer of loadExpenses' RPC given as rows
LoadExpensesData ==
    /\ an.pc = "open"
    /\ UNCHANGED <<hvars, expenses, lastRead, data, ex, app>>
    /\ \E req \in an.pending : an' = Answered(an, req, data)

----------------------------------------------------------------------------
(* Reads and writes made straight at the REST endpoints                    *)

NoRead == [user |-> NULL, via |-> "none", expenses |-> {}, profiles |-> {}]

\* insert into expenses by user u, admitted by policy expenses_insert
InsertExpense(u) ==
    /\ Cardinality(expenses) < Cardinality(ExpenseIds)
    /\ UNCHANGED <<hvars, an, lastRead, data, ex, app>>
    /\ \E h \in households, amount \in SavedAmounts,
          category \in SavedCategories, date \in SavedDates :
         LET row == [id |-> Cardinality(expenses) + 1, household_id |-> h.id,
                     created_by |-> u, amount |-> amount,
                     store_name |-> <<"S">>,
                     category |-> category, date |-> date,
                     updated_by |-> NULL]
         IN  /\ expenses_insert(u, row)
             /\ expenses' = expenses \cup {row}

\* from('expenses').select() by user u: the rows the policy lets through
SelectExpenses(u) ==
    /\ UNCHANGED <<hvars, expenses, an, data, ex, app>>
    /\ lastRead' = [user |-> u, via |-> "expenses",
                    expenses |-> {e \in expenses :
                                    expenses_select_household(u, e)},
                    profiles |-> {}]

\* rpc('get_expenses_with_creator_profiles') by user u, with any household id
RpcGetExpenses(u) ==
    /\ UNCHANGED <<hvars, expenses, an, data, ex, app>>
    /\ \E h \in households, range \in RestRanges :
         LET rows == get_expenses_with_creator_profiles(
                        h.id, range.start_date, range.end_date)
         IN  lastRead' = [user |-> u, via |-> "get_expenses",
                          expenses |-> rows,
                          profiles |-> {e.created_by : e \in rows}]

\* from('profiles').select() by user u
SelectProfiles(u) ==
    /\ UNCHANGED <<hvars, expenses, an, data, ex, app>>
    /\ lastRead' = [user |-> u, via |-> "profiles", expenses |-> {},
                    profiles |-> {id \in Users :
                                    profiles_select_household_members(u, id)}]

\* rpc('get_household_members_with_profiles') by user u, with any household id
RpcGetMembers(u) ==
    /\ UNCHANGED <<hvars, expenses, an, data, ex, app>>
    /\ \E h \in households :
         lastRead' = [user |-> u, via |-> "get_members", expenses |-> {},
                      profiles |-> {r.user_id :
                          r \in get_household_members_with_profiles(h.id)}]

----------------------------------------------------------------------------
(* App: session, loading, householdComplete and the screens offered        *)

\* sign-ins and sign-outs on one device in one behaviour
MaxAuthOps == 2

\* the devices whose App is running
AppDevices == {"d1"}

\* App before it is started; auth is the session the auth client holds,
\* checks counts the checkHouseholdSetup requests in flight per user
FreshApp ==
    [mounted |-> FALSE, auth |-> NULL, session |-> NULL, loading |-> TRUE,
     householdComplete |-> FALSE, getSession |-> FALSE, events |-> <<>>,
     checks |-> [u \in Users |-> 0], ops |-> 0]

AuthEvent(event, session) == [event |-> event, session |-> session]

\* the events the auth client sends a new subscriber on startup: always
\* INITIAL_SESSION and, when it recovers a stored session, possibly SIGNED_IN
StartupEvents(stored) ==
    IF stored = NULL THEN {<<AuthEvent("INITIAL_SESSION", NULL)>>}
    ELSE {<<AuthEvent("INITIAL_SESSION", stored)>>,
          <<AuthEvent("SIGNED_IN", stored), AuthEvent("INITIAL_SESSION", stored)>>,
          <<AuthEvent("INITIAL_SESSION", stored), AuthEvent("SIGNED_IN", stored)>>}

\* App after its mount effect ran: getSession() called, the auth listener
\* and the household listener registered
StartedApp(stored, events) ==
    [mounted |-> TRUE, auth |-> stored, getSession |-> TRUE,
     events |-> events] @@ FreshApp

\* checkHouseholdSetup(userId) up to its await: the request is sent
checkHouseholdSetup(a, userId) == [a EXCEPT !.checks[userId] = @ + 1]

\* the callback of supabase.auth.getSession().then
GetSessionThen(a) ==
    LET s1 == [a EXCEPT !.session = a.auth, !.getSession = FALSE]
    IN  IF a.auth # NULL THEN checkHouseholdSetup(s1, a.auth)
        ELSE [s1 EXCEPT !.loading = FALSE]

\* the callback with a setLoading(true) before the household check
onAuthStateChange_Loading(a, event, session) ==
    LET s1 == [a EXCEPT !.session = session]
    IN  IF event = "SIGNED_IN" /\ session # NULL
        THEN checkHouseholdSetup([s1 EXCEPT !.loading = TRUE], session)
        ELSE IF event \in {"SIGNED_OUT", "INITIAL_SESSION"}
        THEN [s1 EXCEPT !.householdComplete = FALSE, !.loading = FALSE]
        ELSE s1

\* the callback of supabase.auth.onAuthStateChange
onAuthStateChange(a, event, session) ==
    LET s1 == [a EXCEPT !.session = session]
    IN  IF event = "SIGNED_IN" /\ session # NULL
        THEN checkHouseholdSetup(s1, session)
        ELSE IF event \in {"SIGNED_OUT", "INITIAL_SESSION"}
        THEN [s1 EXCEPT !.householdComplete = FALSE, !.loading = FALSE]
        ELSE s1

\* checkHouseholdSetup(userId) from its await on: error is true when the
\* query returned an error or threw, rows are the rows it returned
CheckAnswered(a, userId, error, rows) ==
    [a EXCEPT !.checks[userId] = @ - 1,
              !.householdComplete = IF error THEN FALSE ELSE rows # {},
              !.loading = FALSE]

\* the screens with the household screens offered to a signed-in user
\* whatever householdComplete is
Screens_NoHouseholdTest(a) ==
    IF a.loading THEN {}
    ELSE IF a.session # NULL
    THEN {"Home", "Settings", "ProfileSetup", "HouseholdSetup", "Expense",
          "Analysis"}
    ELSE {"Landing", "SignIn", "SignUp"}

\* the Stack.Screen elements App renders
Screens(a) ==
    IF a.loading THEN {}
    ELSE IF a.session # NULL
    THEN IF ~a.householdComplete THEN {"HouseholdSetup"}
         ELSE {"Home", "Settings", "ProfileSetup", "HouseholdSetup", "Expense",
               "Analysis"}
    ELSE {"Landing", "SignIn", "SignUp"}

\* getSession() resolves
GetSessionResolves(c) ==
    /\ app[c].mounted /\ app[c].getSession
    /\ app' = [app EXCEPT ![c] = GetSessionThen(@)]
    /\ UNCHANGED <<hvars, svars>>

\* the auth client delivers its next event to the listener
AuthStateChange(c) ==
    /\ app[c].mounted /\ app[c].events # <<>>
    /\ LET e == Head(app[c].events)
       IN  app' = [app EXCEPT ![c] =
                     onAuthStateChange([@ EXCEPT !.events = Tail(@)],
                                       e.event, e.session)]
    /\ UNCHANGED <<hvars, svars>>

\* a checkHouseholdSetup request is answered:
\* from('household_members').select('id').eq('user_id', userId).limit(1)
CheckHouseholdAnswers(c) ==
    /\ app[c].mounted
    /\ UNCHANGED <<households, members, profiles, on_household_created,
                   before_household_created, cl, restCalled, svars>>
    /\ \E userId \in Users, ok \in Outcomes :
         /\ app[c].checks[userId] > 0
         /\ Failed(ok)
         /\ app' = [app EXCEPT ![c] =
                      CheckAnswered(@, userId, ~ok,
                                    {m \in members : m.user_id = userId})]

\* no handler of HouseholdSetupScreen is running on device c
NoHandler(c) == cl[c].pc \in {"idle", "done"}

\* the session HouseholdSetupScreen's next handler will find
WithSession(c, session) ==
    IF cl[c].pc = "idle" THEN [cl EXCEPT ![c].session = session] ELSE cl

\* SignInScreen: signInWithPassword succeeds for user u (a sign-in that fails
\* changes nothing)
SignIn(c, u) ==
    /\ app[c].mounted /\ app[c].auth = NULL
    /\ "SignIn" \in Screens(app[c])
    /\ app[c].ops < MaxAuthOps
    /\ NoHandler(c)
    /\ app' = [app EXCEPT ![c].auth = u, ![c].ops = @ + 1,
                          ![c].events = Append(@, AuthEvent("SIGNED_IN", u))]
    /\ cl' = WithSession(c, u)
    /\ UNCHANGED <<households, members, profiles, on_household_created,
                   before_household_created, restCalled, failures, svars>>

\* auth.signOut() from a screen, or the auth client dropping a session it
\* cannot refresh
SignOut(c) ==
    /\ app[c].mounted /\ app[c].auth # NULL
    /\ app[c].ops < MaxAuthOps
    /\ NoHandler(c)
    /\ app' = [app EXCEPT ![c].auth = NULL, ![c].ops = @ + 1,
                          ![c].events = Append(@, AuthEvent("SIGNED_OUT", NULL))]
    /\ cl' = WithSession(c, NULL)
    /\ UNCHANGED <<households, members, profiles, on_household_created,
                   before_household_created, restCalled, failures, svars>>

\* HouseholdSetupScreen is on screen for the user the auth client holds
HouseholdSetupOpen(c) ==
    /\ app[c].mounted /\ app[c].auth # NULL
    /\ cl[c].session = app[c].auth
    /\ "HouseholdSetup" \in Screens(app[c])

----------------------------------------------------------------------------
(* ExpenseScreen: loadUserHousehold, handleSaveExpense, handleDeleteExpense *)

\* the ExpenseScreen instances opened in one behaviour, one after the other
Openings == {1, 2}

IsDigit(ch) == \E i \in 1..10 : Digits[i] = ch

RECURSIVE DigitPrefix(_)
DigitPrefix(s) ==
    IF s # <<>> /\ IsDigit(Head(s)) THEN <<Head(s)>> \o DigitPrefix(Tail(s))
    ELSE <<>>

InfinityText == <<"I", "n", "f", "i", "n", "i", "t", "y">>

StartsWith(s, p) == Len(s) >= Len(p) /\ SubSeq(s, 1, Len(p)) = p

\* a JavaScript number: NaN, an infinity (v its sign) or v hundredths
NaN == [nan |-> TRUE, inf |-> FALSE, v |-> 0]

\* JavaScript parseFloat, for texts without exponent and with at most two
\* fraction digits: leading blanks, a sign, Infinity or digits with an
\* optional fraction; whatever follows is ignored
parseFloat(text) ==
    LET t == TrimStart(text)
        signed == t # <<>> /\ Head(t) \in {"-", "+"}
        neg == signed /\ Head(t) = "-"
        u == IF signed THEN Tail(t) ELSE t
        int == DigitPrefix(u)
        rest == SubSeq(u, Len(int) + 1, Len(u))
        frac == IF rest # <<>> /\ Head(rest) = "." THEN DigitPrefix(Tail(rest))
                ELSE <<>>
        abs == 100 * ParseInt(int, 0)
               + ParseInt(SUBSTRING(frac \o <<"0", "0">>, 1, 2), 0)
    IN  IF StartsWith(u, InfinityText)
        THEN [nan |-> FALSE, inf |-> TRUE, v |-> IF neg THEN -1 ELSE 1]
        ELSE IF int = <<>> /\ frac = <<>> THEN NaN
        ELSE [nan |-> FALSE, inf |-> FALSE, v |-> IF neg THEN -abs ELSE abs]

isNaN(n) == n.nan

\* n <= 0 in JavaScript: false for NaN
NotPositive(n) == ~n.nan /\ n.v <= 0

\* what the user typed in the amount and store fields and picked as category
AmountTexts ==
    {<<>>, <<" ">>, <<"7">>, <<"0">>, <<"-", "7">>, <<"7", "x">>, <<"x">>,
     <<".", "5">>, <<"0", ".", "0", "0">>, InfinityText}

StoreNames == {<<>>, <<" ">>, <<" ", "S">>}

FormCategories == {"", "Food"}

FormDate == [y |-> 2024, m |-> 2, d |-> 1]

\* the screen before it is opened; save and del are the positions of
\* handleSaveExpense and of the confirmed delete, amount, storeName and
\* category the form as last submitted, error the error of the last write
FreshExpense(session, expenseId) ==
    [session |-> session, expenseId |-> expenseId, open |-> FALSE,
     loadHousehold |-> FALSE, householdId |-> 0,
     save |-> "idle", del |-> "idle", saving |-> FALSE, deleting |-> FALSE,
     amount |-> <<>>, storeName |-> <<>>, category |-> "",
     alert |-> "none", navigated |-> FALSE, error |-> "none", opens |-> 0]

\* policy expenses_update_household; without WITH CHECK the USING
\* expression also checks the new row
expenses_update_household(uid, row) == IsMember(uid, row.household_id)

\* policy expenses_delete_household
expenses_delete_household(uid, row) == IsMember(uid, row.household_id)

\* NOT NULL and CHECK (amount > 0) of table expenses, for a JSON number:
\* JSON has no NaN or Infinity, they are sent as null
ExpenseConstraints(amount) ==
    IF amount.nan \/ amount.inf THEN "23502"
    ELSE IF ~(amount.v > 0) THEN "23514"
    ELSE "none"

FreeExpenseIds == ExpenseIds \ {r.id : r \in expenses}

\* from('expenses').insert(expenseData) by user uid
insert_expense(uid, expenseData) ==
    LET id == CHOOSE i \in FreeExpenseIds : \A j \in FreeExpenseIds : i <= j
        row == [id |-> id, household_id |-> expenseData.household_id,
                created_by |-> expenseData.created_by,
                amount |-> expenseData.amount.v,
                store_name |-> expenseData.store_name,
                category |-> expenseData.category, date |-> expenseData.date,
                updated_by |-> NULL]
        err == IF ExpenseConstraints(expenseData.amount) # "none"
               THEN ExpenseConstraints(expenseData.amount)
               ELSE IF ~expenses_insert(uid, row) THEN "42501" ELSE "none"
    IN  [es |-> IF err = "none" THEN expenses \cup {row} ELSE expenses,
         err |-> err]

\* the row an update of row r to expenseData writes; the trigger
\* expenses_updated sets updated_by
UpdatedRow(uid, r, expenseData) ==
    [r EXCEPT !.household_id = expenseData.household_id,
              !.created_by = expenseData.created_by,
              !.amount = expenseData.amount.v,
              !.store_name = expenseData.store_name,
              !.category = expenseData.category,
              !.date = expenseData.date,
              !.updated_by = uid]

\* the update without .eq('id', id): every row the user may update
update_expense_NoEq(uid, id, expenseData) ==
    LET target == {r \in expenses : expenses_update_household(uid, r)}
        new == {UpdatedRow(uid, r, expenseData) : r \in target}
    IN  [es |-> (expenses \ target) \cup new, err |-> "none"]

\* from('expenses').update(expenseData).eq('id', id) by user uid: the rows
\* the policy lets the user see are updated; none is no error
update_expense(uid, id, expenseData) ==
    LET target == {r \in expenses :
                     r.id = id /\ expenses_update_household(uid, r)}
        new == {UpdatedRow(uid, r, expenseData) : r \in target}
        err == IF target = {} THEN "none"
               ELSE IF ExpenseConstraints(expenseData.amount) # "none"
               THEN ExpenseConstraints(expenseData.amount)
               ELSE IF \E r \in new : ~expenses_update_household(uid, r)
               THEN "42501" ELSE "none"
    IN  [es |-> IF err = "none" THEN (expenses \ target) \cup new ELSE expenses,
         err |-> err]

\* from('expenses').delete().eq('id', id).select() by user uid
delete_expense(uid, id) ==
    expenses \ {r \in expenses : r.id = id /\ expenses_delete_household(uid, r)}

ExpenseUnchanged == UNCHANGED <<households, members, profiles,
                                on_household_created, before_household_created,
                                cl, restCalled, an, lastRead, data, app>>

\* no request of the screen is in flight
ExpenseIdle == ~ex.loadHousehold /\ ex.save = "idle" /\ ex.del = "idle"

\* navigation.navigate('Expense', {expenseId}) by user u: the screen mounts
\* and its effect calls loadUserHousehold.  expenseId 0: a new expense
OpenExpense(u, expenseId) ==
    /\ ~ex.open /\ ExpenseIdle
    /\ ex.opens + 1 \in Openings
    /\ IF expenseId = 0 THEN FreeExpenseIds # {}
       ELSE \E r \in expenses :
              r.id = expenseId /\ expenses_select_household(u, r)
    /\ ex' = [FreshExpense(u, expenseId) EXCEPT
                !.open = TRUE, !.loadHousehold = TRUE, !.opens = ex.opens + 1]
    /\ UNCHANGED <<expenses, failures>>
    /\ ExpenseUnchanged

\* loadUserHousehold: from('household_members').select('household_id')
\* .eq('user_id', user.id).limit(1).single(); an error alerts and goes back
ExpenseLoadHousehold ==
    /\ ex.loadHousehold
    /\ UNCHANGED expenses
    /\ ExpenseUnchanged
    /\ \E ok \in Outcomes :
         /\ Failed(ok)
         /\ LET rows == {m \in members : m.user_id = ex.session}
            IN  IF ~ok \/ rows = {}
                THEN ex' = [ex EXCEPT !.loadHousehold = FALSE,
                                      !.alert = "LoadHouseholdFailed",
                                      !.open = FALSE]
                ELSE \E m \in rows :
                       ex' = [ex EXCEPT !.loadHousehold = FALSE,
                                        !.householdId = m.household_id]

\* the validation without the test of the amount
Validate_NoAmountTest(amount, storeName, category, householdId) ==
    IF amount = <<>> \/ storeName = <<>> \/ category = ""
    THEN "Required Fields"
    ELSE IF householdId = 0 THEN "NoHousehold"
    ELSE "none"

\* the alert handleSaveExpense rejects the form with, or none
Validate(amount, storeName, category, householdId) ==
    IF amount = <<>> \/ storeName = <<>> \/ category = ""
    THEN "Required Fields"
    ELSE IF isNaN(parseFloat(amount)) \/ NotPositive(parseFloat(amount))
    THEN "Invalid Amount"
    ELSE IF householdId = 0 THEN "NoHousehold"
    ELSE "none"

\* handleSaveExpense up to auth.getUser(): the form is validated and
\* rejected with an alert, or saving is set
HandleSaveExpense(amount, storeName, category) ==
    /\ ex.open /\ ~ex.saving /\ ex.save = "idle"
    /\ UNCHANGED <<expenses, failures>>
    /\ ExpenseUnchanged
    /\ LET alert == Validate(amount, storeName, category, ex.householdId)
           form == [ex EXCEPT !.amount = amount, !.storeName = storeName,
                              !.category = category]
       IN  IF alert # "none" THEN ex' = [ex EXCEPT !.alert = alert]
           ELSE ex' = [form EXCEPT !.saving = TRUE, !.save = "user"]

\* handleSaveExpense returns; the form is entered anew for the next
\* invocation
Returned ==
    [ex EXCEPT !.save = "idle", !.amount = <<>>, !.storeName = <<>>,
               !.category = ""]

\* a catch block that leaves the handler waiting for the write again
SaveCatch_Again(err) ==
    ex' = [ex EXCEPT !.error = err, !.alert = "SaveFailed"]

\* a catch block that reports the error and leaves saving set
SaveCatch_StillSaving(err) ==
    ex' = [Returned EXCEPT !.error = err, !.alert = "SaveFailed"]

\* the catch block of handleSaveExpense
SaveCatch(err) ==
    ex' = [Returned EXCEPT !.error = err, !.alert = "SaveFailed",
                           !.saving = FALSE]

\* auth.getUser() of handleSaveExpense answers
SaveGetUser ==
    /\ ex.save = "user"
    /\ UNCHANGED expenses
    /\ ExpenseUnchanged
    /\ \E ok \in Outcomes :
         /\ Failed(ok)
         /\ IF ok THEN ex' = [ex EXCEPT !.save = "write"]
            ELSE SaveCatch("User not found")

\* the object handleSaveExpense writes
ExpenseData ==
    [household_id |-> ex.householdId, created_by |-> ex.session,
     amount |-> parseFloat(ex.amount), store_name |-> Trim(ex.storeName),
     category |-> ex.category, date |-> FormDate]

\* the update or insert of handleSaveExpense answers; without error the
\* screen navigates to Home with expenseUpdated
SaveWrite ==
    /\ ex.save = "write"
    /\ ExpenseUnchanged
    /\ \E ok \in Outcomes :
         /\ Failed(ok)
         /\ LET r == IF ex.expenseId # 0
                     THEN update_expense(ex.session, ex.expenseId, ExpenseData)
                     ELSE insert_expense(ex.session, ExpenseData)
            IN  IF ~ok THEN UNCHANGED expenses /\ SaveCatch("network")
                ELSE /\ expenses' = r.es
                     /\ IF r.err # "none" THEN SaveCatch(r.err)
                        ELSE ex' = [Returned EXCEPT !.error = "none",
                                                    !.navigated = TRUE,
                                                    !.open = FALSE]

\* handleDeleteExpense with the dialog confirmed, up to the delete request;
\* the button is rendered when editing
HandleDeleteExpense ==
    /\ ex.open /\ ex.expenseId # 0
    /\ ~ex.deleting /\ ex.del = "idle"
    /\ ex' = [ex EXCEPT !.deleting = TRUE, !.del = "write"]
    /\ UNCHANGED <<expenses, failures>>
    /\ ExpenseUnchanged

\* the delete answers
DeleteWrite ==
    /\ ex.del = "write"
    /\ ExpenseUnchanged
    /\ \E ok \in Outcomes :
         /\ Failed(ok)
         /\ IF ok
            THEN /\ expenses' = delete_expense(ex.session, ex.expenseId)
                 /\ ex' = [ex EXCEPT !.del = "idle", !.deleting = FALSE,
                                     !.error = "none", !.navigated = TRUE,
                                     !.open = FALSE]
            ELSE /\ UNCHANGED expenses
                 /\ ex' = [ex EXCEPT !.del = "idle", !.deleting = FALSE,
                                     !.error = "network",
                                     !.alert = "DeleteFailed"]

----------------------------------------------------------------------------
Init ==
    /\ households = {}
    /\ members = {}
    /\ profiles = [u \in Users |-> IF u = "u1" THEN NULL ELSE "full"]
    /\ on_household_created \in BOOLEAN
    /\ before_household_created \in BOOLEAN
    /\ \E ss \in [Clients -> Users] :
         /\ ss["d1"] = "u1"
         /\ cl = [c \in Clients |-> FreshScreen(ss[c])]
    /\ restCalled = {}
    /\ failures = 0
    /\ expenses = {}
    /\ an = FreshAnalysis(NULL)
    /\ lastRead = NoRead
    /\ data = <<>>
    /\ ex = FreshExpense(NULL, 0)
    /\ app = [c \in Clients |-> FreshApp]

Next ==
    \/ \E c \in Clients : StartCreate(c)
    \/ \E c \in Clients : CreateProfile(c)
    \/ \E c \in Clients : CreateUpsert(c)
    \/ \E c \in Clients : CreateRpc(c)
    \/ \E c \in Clients : CreateCheck(c)
    \/ \E c \in Clients : CreateInsert(c)
    \/ \E c \in Clients : StartJoin(c)
    \/ \E c \in Clients : JoinFind(c)
    \/ \E c \in Clients : JoinCheck(c)
    \/ \E c \in Clients : JoinProfile(c)
    \/ \E c \in Clients : JoinUpsert(c)
    \/ \E c \in Clients : JoinInsert(c)
    \/ \E r \in RestCallers, u \in Users : RestJoinWithCode(r, u)
    \/ \E r \in RestCallers, u \in Users : RestInsertHousehold(r, u)

Spec == Init /\ [][Next]_vars

----------------------------------------------------------------------------
(* The Analysis screen over a database with two households                 *)

\* two households, each created by create_household_only with the trigger
\* on_household_created installed
TwoHouseholds ==
    /\ households = {[id |-> 1, created_by |-> "u1",
                      join_code |-> RandomJoinCode(1), path |-> "rpc"],
                     [id |-> 2, created_by |-> "u2",
                      join_code |-> RandomJoinCode(2), path |-> "rpc"]}
    /\ members = {MemberRow({}, "u1", 1, "admin"),
                  [id |-> 2, user_id |-> "u2", household_id |-> 2,
                   role |-> "admin"]}
    /\ profiles = [u \in Users |-> "full"]
    /\ on_household_created = TRUE
    /\ before_household_created = FALSE
    /\ cl = [c \in Clients |-> FreshScreen("u1")]
    /\ restCalled = {}
    /\ failures = 0

InitAnalysis ==
    /\ TwoHouseholds
    /\ expenses = {}
    /\ an = FreshAnalysis("u1")
    /\ lastRead = NoRead
    /\ data = <<>>
    /\ ex = FreshExpense(NULL, 0)
    /\ app = [c \in Clients |-> FreshApp]

NextAnalysis ==
    \/ Mount
    \/ LoadUserHousehold
    \/ HandleMonthSelect
    \/ LoadExpenses
    \/ \E u \in Users : InsertExpense(u)
    \/ \E r \in RestCallers, u \in Users : RestJoinWithCode(r, u)

SpecAnalysis == InitAnalysis /\ [][NextAnalysis]_vars

----------------------------------------------------------------------------
(* The reading endpoints over a database with two households               *)

InitAccess ==
    /\ TwoHouseholds
    /\ expenses = {}
    /\ an = FreshAnalysis(NULL)
    /\ lastRead = NoRead
    /\ data = <<>>
    /\ ex = FreshExpense(NULL, 0)
    /\ app = [c \in Clients |-> FreshApp]

NextAccess ==
    \/ \E u \in Users : InsertExpense(u)
    \/ \E r \in RestCallers, u \in Users : RestJoinWithCode(r, u)
    \/ \E u \in Users : SelectExpenses(u)
    \/ \E u \in Users : RpcGetExpenses(u)
    \/ \E u \in Users : SelectProfiles(u)
    \/ \E u \in Users : RpcGetMembers(u)

SpecAccess == InitAccess /\ [][NextAccess]_vars

----------------------------------------------------------------------------
(* The totals of every list of rows                                        *)

\* row i of an answer of the RPC
DataRow(i, amount, category) ==
    [expense_id |-> i, amount |-> amount, category |-> category,
     expense_date |-> <<"2", "0", "2", "4", "-", "0", "2", "-", "0", "1">>,
     created_by |-> "u1", creator_name |-> "full"]

InitTotals ==
    /\ TwoHouseholds
    /\ expenses = {}
    /\ an = [pc |-> "open", householdId |-> 1,
             pending |-> {[year |-> 2024, month |-> 2, householdId |-> 1]}]
            @@ FreshAnalysis("u1")
    /\ lastRead = NoRead
    /\ \E n \in 0..MaxData :
         \E f \in [1..n -> DataAmounts \X DataCategories] :
            data = [i \in 1..n |-> DataRow(i, f[i][1], f[i][2])]
    /\ ex = FreshExpense(NULL, 0)
    /\ app = [c \in Clients |-> FreshApp]

NextTotals == LoadExpensesData

SpecTotals == InitTotals /\ [][NextTotals]_vars

----------------------------------------------------------------------------
(* App on one device, over a database with one household                   *)

\* u2 created a household and is its admin; u1 has none and may have filled
\* in a profile.  The stored
\* session of the device is none, u1 or u2
InitApp ==
    /\ households = {[id |-> 1, created_by |-> "u2",
                      join_code |-> RandomJoinCode(2), path |-> "rpc"]}
    /\ members = {MemberRow({}, "u2", 1, "admin")}
    /\ \E name \in {NULL, "full"} :
         profiles = [u \in Users |-> IF u = "u1" THEN name ELSE "full"]
    /\ on_household_created \in BOOLEAN
    /\ before_household_created = FALSE
    /\ restCalled = {}
    /\ failures = 0
    /\ expenses = {}
    /\ an = FreshAnalysis(NULL)
    /\ lastRead = NoRead
    /\ data = <<>>
    /\ ex = FreshExpense(NULL, 0)
    /\ \E stored \in Users \cup {NULL} :
         /\ cl = [c \in Clients |-> FreshScreen(IF c \in AppDevices THEN stored
                                                ELSE "u2")]
         /\ \E events \in StartupEvents(stored) :
              app = [c \in Clients |->
                       IF c \in AppDevices THEN StartedApp(stored, events)
                       ELSE FreshApp]

NextApp ==
    \/ \E c \in AppDevices : GetSessionResolves(c)
    \/ \E c \in AppDevices : AuthStateChange(c)
    \/ \E c \in AppDevices : CheckHouseholdAnswers(c)
    \/ \E c \in AppDevices, u \in Users : SignIn(c, u)
    \/ \E c \in AppDevices : SignOut(c)
    \/ \E c \in AppDevices : HouseholdSetupOpen(c) /\ StartCreate(c)
    \/ \E c \in AppDevices : CreateProfile(c)
    \/ \E c \in AppDevices : CreateUpsert(c)
    \/ \E c \in AppDevices : CreateRpc(c)
    \/ \E c \in AppDevices : CreateCheck(c)
    \/ \E c \in AppDevices : CreateInsert(c)
    \/ \E c \in AppDevices : HouseholdSetupOpen(c) /\ StartJoin(c)
    \/ \E c \in AppDevices : JoinFind(c)
    \/ \E c \in AppDevices : JoinCheck(c)
    \/ \E c \in AppDevices : JoinProfile(c)
    \/ \E c \in AppDevices : JoinUpsert(c)
    \/ \E c \in AppDevices : JoinInsert(c)

SpecApp == InitApp /\ [][NextApp]_vars

\* every promise settles, every event is delivered, every request answers
FairApp ==
    \A c \in AppDevices :
        /\ WF_vars(GetSessionResolves(c))
        /\ WF_vars(AuthStateChange(c))
        /\ WF_vars(CheckHouseholdAnswers(c))

SpecAppFair == SpecApp /\ FairApp

----------------------------------------------------------------------------
(* ExpenseScreen over a household with two members and one expense         *)

\* u1 created household 1 and saved an expense in it; u2 created household 2
\* and joined household 1
ExpenseDb ==
    /\ households = {[id |-> 1, created_by |-> "u1",
                      join_code |-> RandomJoinCode(3), path |-> "rpc"],
                     [id |-> 2, created_by |-> "u2",
                      join_code |-> RandomJoinCode(2), path |-> "rpc"]}
    /\ members = {[id |-> 1, user_id |-> "u1", household_id |-> 1,
                   role |-> "admin"],
                  [id |-> 2, user_id |-> "u2", household_id |-> 2,
                   role |-> "admin"],
                  [id |-> 3, user_id |-> "u2", household_id |-> 1,
                   role |-> "member"]}
    /\ profiles = [u \in Users |-> "full"]
    /\ before_household_created = FALSE
    /\ cl = [c \in Clients |-> FreshScreen("u1")]
    /\ restCalled = {}
    /\ failures = 0
    /\ expenses = {[id |-> 1, household_id |-> 1, created_by |-> "u1",
                    amount |-> 700, store_name |-> <<"S">>,
                    category |-> "Food", date |-> FormDate,
                    updated_by |-> NULL]}
    /\ an = FreshAnalysis(NULL)
    /\ lastRead = NoRead
    /\ data = <<>>
    /\ ex = FreshExpense(NULL, 0)
    /\ app = [c \in Clients |-> FreshApp]

InitExpense == ExpenseDb /\ on_household_created = TRUE

NextExpense ==
    \/ \E u \in Users, expenseId \in ExpenseIds \cup {0} :
         OpenExpense(u, expenseId)
    \/ ExpenseLoadHousehold
    \/ \E amount \in AmountTexts, storeName \in StoreNames,
          category \in FormCategories :
         HandleSaveExpense(amount, storeName, category)
    \/ SaveGetUser
    \/ SaveWrite
    \/ HandleDeleteExpense
    \/ DeleteWrite

SpecExpense == InitExpense /\ [][NextExpense]_vars

----------------------------------------------------------------------------
(* One device whose user is on HouseholdSetupScreen or on ExpenseScreen    *)

InitHandlers == ExpenseDb /\ on_household_created \in BOOLEAN

\* ExpenseScreen has not been opened
NoExpenseScreen == ~ex.open /\ ex.opens = 0

\* no handler of HouseholdSetupScreen has been started
NoHouseholdHandler == \A c \in Clients : Idle(c)

NextHandlers ==
    \/ \E c \in AppDevices : NoExpenseScreen /\ StartCreate(c)
    \/ \E c \in AppDevices : CreateProfile(c)
    \/ \E c \in AppDevices : CreateUpsert(c)
    \/ \E c \in AppDevices : CreateRpc(c)
    \/ \E c \in AppDevices : CreateCheck(c)
    \/ \E c \in AppDevices : CreateInsert(c)
    \/ \E c \in AppDevices : NoExpenseScreen /\ StartJoin(c)
    \/ \E c \in AppDevices : JoinFind(c)
    \/ \E c \in AppDevices : JoinCheck(c)
    \/ \E c \in AppDevices : JoinProfile(c)
    \/ \E c \in AppDevices : JoinUpsert(c)
    \/ \E c \in AppDevices : JoinInsert(c)
    \/ \E u \in Users, expenseId \in ExpenseIds \cup {0} :
         NoHouseholdHandler /\ OpenExpense(u, expenseId)
    \/ ExpenseLoadHousehold
    \/ \E amount \in AmountTexts, storeName \in StoreNames,
          category \in FormCategories :
         HandleSaveExpense(amount, storeName, category)
    \/ SaveGetUser
    \/ SaveWrite
    \/ HandleDeleteExpense
    \/ DeleteWrite

SpecHandlers == InitHandlers /\ [][NextHandlers]_vars

----------------------------------------------------------------------------
(* Claims about households and memberships                                 *)

RowsOf(u, h) == {m \in members : m.user_id = u /\ m.household_id = h}

UniqueMembership ==
    \A u \in Users : \A h \in households : Cardinality(RowsOf(u, h.id)) <= 1

\* a step adds rows only, and none for a pair that is already a member
NoRowForAMember ==
    /\ members \subseteq members'
    /\ \A m \in members' \ members : ~IsMember(m.user_id, m.household_id)

\* C1: household_members holds at most one row per (user_id, household_id)
\* after any interleaving of joinHousehold, join_household_with_code and
\* createHousehold, and a join by a user who is already a member adds no row.
C1_InsertIfNotMember == []UniqueMembership /\ [][NoRowForAMember]_vars

\* two joins of one user raced: the second insert met the UNIQUE constraint
C1_Witness ==
    \E c \in Clients :
        cl[c].op = "join" /\ cl[c].pc = "done" /\ cl[c].err = "23505"

\* the step in which device c's joinHousehold inserts its membership row
JoinInsertStep(c) ==
    cl[c].pc = "j_insert" /\ cl'[c].pc = "done" /\ members' # members

\* C2: joinHousehold adds the current user only to the household whose stored
\* join_code equals the upper-cased, trimmed code that was entered.
C2_JoinsOnlyTheCodedHousehold ==
    [][\A c \in Clients : JoinInsertStep(c) =>
         \A m \in members' \ members :
            /\ m.user_id = cl[c].session
            /\ \E h \in households :
                 /\ h.id = m.household_id
                 /\ h.join_code = UPPER(Trim(cl[c].joinCode))]_vars

\* a join went through while a household with another code existed
C2_Witness ==
    /\ \E c \in Clients : cl[c].op = "join" /\ cl[c].inserted
    /\ \E h1, h2 \in households : h1.join_code # h2.join_code

\* the step in which device c's lookup answers, with no household matching
EmptyLookupStep(c) ==
    /\ cl[c].pc = "j_find"
    /\ cl'[c].pc # "j_find"
    /\ cl'[c].err # "network"
    /\ \A h \in households : h.join_code # UPPER(Trim(cl[c].joinCode))

InvalidCodeOutcome(c) ==
    /\ cl[c].pc = "done"
    /\ ~cl[c].loading
    /\ ~cl[c].inserted
    /\ ~cl[c].profileWritten
    /\ ~cl[c].emitted
    /\ ~cl[c].navigated

\* C3: a joinHousehold whose code matches no household ends in the 'Invalid
\* household code' failure: no membership row, no profile write, no
\* HOUSEHOLD_CREATED_EVENT, no navigation, loading false.
C3_InvalidCode ==
    /\ [][\A c \in Clients : EmptyLookupStep(c) =>
            /\ cl'[c].alert = "InvalidCode"
            /\ members' = members
            /\ profiles' = profiles]_vars
    /\ [](\A c \in Clients : cl[c].alert = "InvalidCode" => InvalidCodeOutcome(c))

C3_Witness ==
    \E c \in Clients : cl[c].op = "join" /\ cl[c].alert = "InvalidCode"

\* C4: after createHousehold's success path (household created, event
\* emitted) the creating user is a member of the new household with role
\* 'admin', exactly once.
C4_CreatorIsAdminOnce ==
    \A c \in Clients :
        (cl[c].op = "create" /\ cl[c].pc = "done" /\ cl[c].emitted) =>
            /\ Cardinality(RowsOf(cl[c].session, cl[c].householdId)) = 1
            /\ \A m \in RowsOf(cl[c].session, cl[c].householdId) :
                 m.role = "admin"

ValidJoinCode(code) ==
    /\ Len(code) = CodeLen
    /\ \A i \in 1..Len(code) : code[i] \in UpperAlnum

\* C5: every household row created by create_household_only, or by a direct
\* insert with the generate_join_code trigger installed, has a join_code of
\* exactly six characters, all upper-case letters or digits.
C5_SixUpperAlnum ==
    \A h \in households :
        (h.path = "rpc" \/ before_household_created) => ValidJoinCode(h.join_code)

\* both creation paths were taken with the trigger installed
C5_Witness ==
    /\ before_household_created
    /\ \E h1, h2 \in households : h1.path = "rpc" /\ h2.path = "insert"

UniqueJoinCodes ==
    /\ \A h1, h2 \in households : h1.join_code = h2.join_code => h1 = h2
    /\ \A code \in JoinCodeInputs :
         Cardinality(find_household_by_join_code(Trim(code))) <= 1

\* the step in which device c's create_household_only answers
CreateRpcStep(c) ==
    cl[c].pc = "c_rpc" /\ cl'[c].pc # "c_rpc" /\ cl'[c].err # "network"

\* C6: no two households share a join_code, so the lookup returns at most one
\* household; a creation whose generated code collides with an existing one
\* fails and leaves the households table unchanged.
C6_UniqueJoinCode ==
    /\ []UniqueJoinCodes
    /\ [][\A c \in Clients : CreateRpcStep(c) =>
            /\ cl'[c].err = "23505" =>
                 /\ \E h \in households : h.join_code = cl'[c].stored
                 /\ households' = households
                 /\ members' = members
                 /\ cl'[c].alert = "CreationFailed"
            /\ \A h \in households' \ households :
                 \A g \in households : g.join_code # h.join_code]_vars

\* a creation failed on the UNIQUE constraint
C6_Witness ==
    \E c \in Clients :
        cl[c].op = "create" /\ cl[c].pc = "done" /\ cl[c].err = "23505"

----------------------------------------------------------------------------
(* Claims about the Analysis screen                                        *)

\* the category an expense is counted under
CategoryOf(expense) ==
    IF expense.category = "" THEN "Other" ELSE expense.category

\* the expenses of a list that are counted under category c, in order
RECURSIVE OfCategory(_, _)
OfCategory(exps, c) ==
    IF exps = <<>> THEN <<>>
    ELSE IF CategoryOf(Head(exps)) = c
         THEN <<Head(exps)>> \o OfCategory(Tail(exps), c)
         ELSE OfCategory(Tail(exps), c)

\* the totals of the entries added up as numbers, in the order of the list
RECURSIVE AddTotals(_, _)
AddTotals(entries, sum) ==
    IF entries = <<>> THEN sum
    ELSE AddTotals(Tail(entries), Plus(sum, Head(entries).total))

RECURSIVE AddCounts(_)
AddCounts(entries) ==
    IF entries = <<>> THEN 0 ELSE Head(entries).count + AddCounts(Tail(entries))

\* C7: for every list of expenses, calculateCategoryTotals yields exactly one
\* entry per distinct category (an empty category counted as 'Other'), whose
\* total is the sum of the amounts and whose count is the number of expenses
\* of that category; the entries' totals add up to monthlyTotal and their
\* counts add up to the number of expenses.
C7_CategoryTotals ==
    an.loads > 0 =>
        LET exps == an.expenses
            ct   == an.categoryTotals
            cats == {CategoryOf(exps[i]) : i \in DOMAIN exps}
        IN  /\ {ct[i].category : i \in DOMAIN ct} = cats
            /\ Len(ct) = Cardinality(cats)
            /\ \A i \in DOMAIN ct :
                 /\ ct[i].count = Len(OfCategory(exps, ct[i].category))
                 /\ ct[i].total =
                        SumAmounts(OfCategory(exps, ct[i].category), 0)
            /\ AddTotals(ct, 0) = an.monthlyTotal
            /\ AddCounts(ct) = Len(exps)

\* the ids of the expenses on the screen
ShownIds(s) == {s.expenses[i].id : i \in DOMAIN s.expenses}

\* the expenses of household h dated in month (1..12) of year
OfMonth(h, year, month) ==
    {e \in expenses :
        e.household_id = h /\ e.date.y = year /\ e.date.m = month}

\* C8: the expenses a loadExpenses call loads for the month selected when it
\* was called are exactly the expenses of the user's household dated in that
\* calendar month: none of another month or household, none of it missing.
C8_LoadsTheMonth ==
    [][an'.loads # an.loads =>
         LET req == an'.loaded
         IN  /\ req \in an.pending
             /\ IsMember(an.session, req.householdId)
             /\ ShownIds(an') =
                    {e.id : e \in OfMonth(req.householdId, req.year, req.month)}
             /\ Len(an'.expenses) = Cardinality(ShownIds(an'))]_vars

\* February of a leap year was loaded with an expense of its last day on the
\* screen, and the household has an expense of another month
C8_Witness ==
    /\ an.loads > 0
    /\ an.loaded.month = 2
    /\ \E e \in expenses : e.id \in ShownIds(an) /\ e.date.d = 29
    /\ \E e \in expenses :
          e.household_id = an.loaded.householdId /\ e.id \notin ShownIds(an)

\* C9: a signed-in user who is not a member of household H obtains no expense
\* of H, neither by a select on expenses nor by the RPC
\* get_expenses_with_creator_profiles.
C9_MembersOnly ==
    \A e \in lastRead.expenses : IsMember(lastRead.user, e.household_id)

\* C10: a user reads a profile only if it is their own or that of a user in
\* a household they are in too, on every read path, the RPC
\* get_household_members_with_profiles included.
C10_OwnOrSameHousehold ==
    \A id \in lastRead.profiles :
        \/ id = lastRead.user
        \/ \E h \in households :
              IsMember(lastRead.user, h.id) /\ IsMember(id, h.id)

----------------------------------------------------------------------------
(* Claims about the result of create_household_only                        *)

\* C13: the join_code in the result of create_household_only equals the
\* join_code stored in the households row with the returned id, also when
\* the before_household_created trigger is installed.
C13_ReturnsStoredCode ==
    \A c \in Clients :
        (cl[c].op = "create" /\ cl[c].householdId # 0) =>
            \A h \in households :
                h.id = cl[c].householdId => h.join_code = cl[c].retCode

----------------------------------------------------------------------------
(* Claims about App                                                        *)

AuthScreens == {"Landing", "SignIn", "SignUp"}

MainScreens ==
    {"Home", "Settings", "ProfileSetup", "HouseholdSetup", "Expense", "Analysis"}

\* C11: once loading is false, the screens offered are the three sign-in
\* screens when there is no session, HouseholdSetup alone when there is a
\* session and householdComplete is false, and the six main screens when
\* there is a session and householdComplete is true; Home and Expense are
\* never offered without a session or with householdComplete false.
C11_ScreensBySession ==
    \A c \in AppDevices :
        ~app[c].loading =>
            /\ app[c].session = NULL => Screens(app[c]) = AuthScreens
            /\ (app[c].session # NULL /\ ~app[c].householdComplete) =>
                   Screens(app[c]) = {"HouseholdSetup"}
            /\ (app[c].session # NULL /\ app[c].householdComplete) =>
                   Screens(app[c]) = MainScreens
            /\ (app[c].session = NULL \/ ~app[c].householdComplete) =>
                   Screens(app[c]) \cap {"Home", "Expense"} = {}

\* a signed-in user with a household is offered Home
C11_Witness ==
    \E c \in AppDevices :
        /\ ~app[c].loading /\ app[c].session # NULL
        /\ app[c].householdComplete
        /\ "Home" \in Screens(app[c])

\* getSession has resolved, every auth event is delivered and every
\* checkHouseholdSetup request is answered
Settled(c) ==
    /\ app[c].mounted /\ ~app[c].getSession
    /\ app[c].events = <<>>
    /\ \A u \in Users : app[c].checks[u] = 0

\* C14: an app that starts with the stored session of a user who belongs to
\* a household has householdComplete true once getSession, the startup
\* events and the household checks have all come in, whatever their order,
\* when no request failed and the user is still signed in.
C14_MemberBecomesComplete ==
    \A c \in AppDevices :
        ( /\ Settled(c)
          /\ app[c].ops = 0 /\ app[c].auth # NULL
          /\ cl[c].pc = "idle" /\ failures = 0
          /\ \E m \in members : m.user_id = app[c].auth )
        => app[c].householdComplete

\* C15: once getSession, the auth events, the household checks and the
\* HouseholdSetupScreen handler have all finished, householdComplete is true
\* only if the signed-in user has a household_members row.
C15_CompleteOnlyForMembers ==
    \A c \in AppDevices :
        (Settled(c) /\ NoHandler(c) /\ app[c].householdComplete) =>
            /\ app[c].session # NULL
            /\ \E m \in members : m.user_id = app[c].session

\* C16: on every startup path loading becomes false, and once it is false no
\* step sets it back to true.
C16_LoadingEnds ==
    /\ \A c \in AppDevices : <>(~app[c].loading)
    /\ [][\A c \in AppDevices : ~app[c].loading => ~app'[c].loading]_vars

\* the startup of a stored session whose household check failed has ended
C16_Witness ==
    \E c \in AppDevices :
        /\ Settled(c) /\ ~app[c].loading
        /\ app[c].ops = 0 /\ app[c].session # NULL
        /\ cl[c].pc = "idle" /\ failures > 0

----------------------------------------------------------------------------
(* Claims about ExpenseScreen                                              *)

Rejections == {"Required Fields", "Invalid Amount", "NoHousehold"}

\* handleSaveExpense has passed its validation and not yet returned
SaveInFlight == ex.save \in {"user", "write"}

\* C17: handleSaveExpense gets to its insert or update only with amount,
\* store name and category non-empty, an amount that parses to a number
\* greater than 0 and a household loaded; a step that rejects the form
\* leaves the expenses table unchanged, saving false and the screen where
\* it is; every expense row has amount > 0.
C17_SaveValidates ==
    /\ [](SaveInFlight =>
            /\ ex.amount # <<>> /\ ex.storeName # <<>> /\ ex.category # ""
            /\ ~isNaN(parseFloat(ex.amount))
            /\ parseFloat(ex.amount).v > 0
            /\ ex.householdId # 0)
    /\ [][(ex'.alert # ex.alert /\ ex'.alert \in Rejections) =>
            /\ expenses' = expenses
            /\ ~ex'.saving /\ ex'.save = "idle"
            /\ ~ex'.navigated /\ ex'.open]_vars
    /\ [](\A r \in expenses : r.amount > 0)

\* the form was rejected for its amount after an expense was added
C17_Witness ==
    /\ ex.open /\ ex.alert = "Invalid Amount"
    /\ ~ex.saving /\ ~ex.navigated
    /\ Cardinality(expenses) = 2

\* the step in which the write of handleSaveExpense returns without error
SaveSucceeds == ex.save = "write" /\ ex'.save = "idle" /\ ex'.error = "none"

\* C18: a successful save without an expenseId adds exactly one row, with
\* the loaded household and the current user as creator, and changes no
\* other row; a successful save with an expenseId changes at most the row
\* with that id and leaves the number of rows as it is.
C18_SaveFrame ==
    [][SaveSucceeds =>
         IF ex.expenseId = 0
         THEN \E row \in expenses' \ expenses :
                /\ expenses' = expenses \cup {row}
                /\ row.household_id = ex.householdId
                /\ row.created_by = ex.session
         ELSE /\ Cardinality(expenses') = Cardinality(expenses)
              /\ \A r \in expenses : r.id # ex.expenseId => r \in expenses'
              /\ \A r \in expenses' : r.id # ex.expenseId => r \in expenses]_vars

\* a row was added by a save and a row was changed by a save
C18_Witness ==
    /\ ex.navigated /\ ex.error = "none" /\ ex.expenseId # 0
    /\ Cardinality(expenses) = 2
    /\ \E r \in expenses : r.id = ex.expenseId /\ r.updated_by = ex.session

\* C19: a successful save of an edit leaves created_by and household_id of
\* the edited expense as they were.
C19_EditKeepsOwner ==
    [][(SaveSucceeds /\ ex.expenseId # 0) =>
         \A r \in expenses, w \in expenses' :
             (r.id = ex.expenseId /\ w.id = r.id) =>
                 /\ w.created_by = r.created_by
                 /\ w.household_id = r.household_id]_vars

\* the step in which the write of handleSaveExpense returns an error
SaveFails == ex.save = "write" /\ ex'.save = "idle" /\ ex'.error # "none"

\* C20: when the insert or update fails, the failure is alerted, saving is
\* false again and the step does not navigate; a step navigates to Home
\* only when a write of the screen returned without error.
C20_FailedSave ==
    /\ [][SaveFails =>
            /\ ex'.alert = "SaveFailed"
            /\ ~ex'.saving
            /\ ex'.navigated = ex.navigated /\ ex'.open = ex.open]_vars
    /\ [][(ex'.navigated /\ ~ex.navigated) =>
            /\ ex.save = "write" \/ ex.del = "write"
            /\ ex'.error = "none" /\ failures' = failures]_vars

\* the write was refused by the database and the form can be sent again
C20_Witness ==
    /\ ex.open /\ ex.alert = "SaveFailed" /\ ex.error = "23502"
    /\ ~ex.saving /\ ~ex.navigated /\ ex.save = "idle"

----------------------------------------------------------------------------
(* Claims about retries                                                    *)

\* the order of the remote calls of createHousehold and of joinHousehold;
\* a handler at a position waits for the answer of that call
Rank(pc) ==
    CASE pc = "idle" -> 0
      [] pc \in {"c_profile", "j_find"} -> 1
      [] pc \in {"c_upsert", "j_check"} -> 2
      [] pc \in {"c_rpc", "j_profile"} -> 3
      [] pc \in {"c_check", "j_upsert"} -> 4
      [] pc \in {"c_insert", "j_insert"} -> 5
      [] pc = "done" -> 6

\* positions waiting for create_household_only or a household_members insert
WritePositions == {"c_rpc", "c_insert", "j_insert"}

\* a step of the HouseholdSetupScreen handler of device c
HouseholdStep(c) == cl[c].pc \notin {"idle", "done"} /\ ex' = ex

\* the step in which the insert or update of handleSaveExpense is answered
SaveAnswered ==
    /\ ex.save = "write" /\ cl' = cl
    /\ ex'.del = ex.del /\ ex'.loadHousehold = ex.loadHousehold
    /\ ex'.save # ex.save \/ failures' # failures

\* the step in which the confirmed delete is answered
DeleteAnswered ==
    /\ ex.del = "write" /\ cl' = cl
    /\ ex'.save = ex.save /\ ex'.loadHousehold = ex.loadHousehold
    /\ ex'.del # ex.del \/ failures' # failures

====
